---------------------------- MODULE Spec2Model ----------------------------
(***************************************************************************)
(* Model of bar-dec's src/main.rs: the tile-grid scan that scores every    *)
(* tile column of every horizontal band by the AC energy of the DFT of its *)
(* binarised centre scanline, and aggregates runs of non-zero scores into  *)
(* barcode regions.                                                        *)
(*                                                                         *)
(* f32 values are modelled in fixed point: a score v is the integer        *)
(* v * Scale.  Indices are 0-based as in the source; TLA+ sequences are    *)
(* 1-based, so column i of a row is row[i + 1].  Every u32 the program      *)
(* computes is bounded by the image's width or height, so none can wrap.   *)
(***************************************************************************)
EXTENDS Integers, Sequences, FiniteSets

VARIABLES
    img,                    \* the decoded image: width, height, content class
    num_sections_width,     \* main.rs:12
    section_width,          \* main.rs:13
    section_height,         \* main.rs:14
    num_sections_height,    \* main.rs:15
    threshold,              \* main.rs:17 (fixed point)
    consecutive_threshold,  \* main.rs:18
    barcode_regions,        \* main.rs:20
    pc,                     \* position in main
    j,                      \* band loop index, main.rs:29
    i,                      \* column loop index, main.rs:46 and main.rs:88
    reads,                  \* pixel coordinates read for the last column
    section_magnitude,      \* raw score of the last column, main.rs:70
    section_magnitudes,     \* Score Row of the current band, main.rs:43
    consecutive_count,      \* main.rs:85
    start_index,            \* main.rs:86: << >> is None, <<s>> is Some(s)
    saved,                  \* band crops written to assets/sections
    charts,                 \* charts written by plot_section_magnitudes
    failed                  \* which call panicked, "none" while running

vars == <<img, num_sections_width, section_width, section_height,
          num_sections_height, threshold, consecutive_threshold,
          barcode_regions, pc, j, i, reads, section_magnitude,
          section_magnitudes, consecutive_count, start_index, saved,
          charts, failed>>

-----------------------------------------------------------------------------
(* Bounds of the model. *)

MaxCols == 4
MaxTileW == 2
MaxTileH == 2
MaxTiles == 6
MaxK == 3
MaxScanW == 16

-----------------------------------------------------------------------------
(* Fixed-point arithmetic standing for f32. *)

\* one unit of a score is 1/Scale
Scale == 1000

\* working precision of the twiddle factors
Fine == 20000

\* pi * pi * Fine, rounded
PiSqFine == 197392

Abs(a) == IF a < 0 THEN -a ELSE a

\* a / b rounded to the nearest integer, b > 0
RoundDiv(a, b) == IF a >= 0 THEN (a + b \div 2) \div b
                            ELSE -((b \div 2 - a) \div b)

RECURSIVE SqrtSearch(_, _, _)
SqrtSearch(n, lo, hi) ==
    IF lo >= hi THEN lo
    ELSE LET mid == (lo + hi + 1) \div 2
         IN  IF mid * mid <= n THEN SqrtSearch(n, mid, hi)
                               ELSE SqrtSearch(n, lo, mid - 1)

\* the square root rounded to the nearest integer, n < 2^31
ISqrt(n) ==
    LET r == SqrtSearch(n, 0, 46340)
    IN  IF n - r * r > r THEN r + 1 ELSE r

RECURSIVE CosSeries(_, _, _, _)
\* the Taylor series of cos, from term t on; term is x^(2t)/(2t)! * Fine
CosSeries(x2, term, t, acc) ==
    IF t > 6 \/ term = 0 THEN acc
    ELSE LET next == -RoundDiv(RoundDiv(term * x2, Fine), (2 * t + 1) * (2 * t + 2))
         IN  CosSeries(x2, next, t + 1, acc + term)

\* cos(pi * p / q) * Fine for 0 <= 2p <= q
CosPi(p, q) == CosSeries(RoundDiv(PiSqFine * p * p, q * q), Fine, 0, 0)

\* cos(2 pi a / n) * Scale, 0 <= a < n
Cos2Pi(a, n) ==
    LET b == IF 2 * a > n THEN n - a ELSE a
    IN  IF 4 * b <= n THEN RoundDiv(CosPi(2 * b, n) * Scale, Fine)
                      ELSE -RoundDiv(CosPi(n - 2 * b, n) * Scale, Fine)

\* sin(2 pi a / n) * Scale, 0 <= a < n
Sin2Pi(a, n) == Cos2Pi((4 * a + 3 * n) % (4 * n), 4 * n)


\* the sum of a sequence of integers
SeqSum(s) ==
    LET F[n \in 0..Len(s)] == IF n = 0 THEN 0 ELSE F[n - 1] + s[n]
    IN  F[Len(s)]

-----------------------------------------------------------------------------
(* The values main binds before the loop (main.rs:12-18), in fixed point.   *)

DefaultNumSectionsWidth == 60
DefaultSectionHeight == 100
DefaultThreshold == 50 * Scale
DefaultConsecutiveThreshold == 5

\* a threshold that a two-pixel tile can exceed
LowThreshold == Scale \div 2

\* luminance samples an image of class "any" is made of
Pixels == {0, 128, 129, 255}

\* image classes: "any" is every image over Pixels; the others are synthetic
\* images whose rows are constant, alternate 0/255 with a one-pixel period,
\* or ("burst") alternate only over the columns 3W/10 .. 8W/10
SyntheticKinds == {"alt0", "alt255", "flat0", "flat255"}

\* the sample of a synthetic image at column x
SyntheticPixel(image, x) ==
    CASE image.kind = "alt0"    -> IF x % 2 = 0 THEN 0 ELSE 255
      [] image.kind = "alt255"  -> IF x % 2 = 0 THEN 255 ELSE 0
      [] image.kind = "flat0"   -> 0
      [] image.kind = "flat255" -> 255
      [] image.kind = "burst"   ->
             IF x >= (3 * image.width) \div 10 /\ x < (8 * image.width) \div 10
             THEN (IF x % 2 = 0 THEN 0 ELSE 255)
             ELSE 0

-----------------------------------------------------------------------------
(* Grid geometry. *)

SectionWidth(width, cols) == width \div cols

NumSectionsHeight(height, sh) == height \div sh

SectionYStart(band, sh) == band * sh

SectionXStart(col, sw) == col * sw

\* variant: the scanline is taken at the band's lower edge
ScanRowBottom(y_start, sh) == y_start + sh

\* the row of the band's centre scanline
ScanRow(y_start, sh) == y_start + sh \div 2

\* the coordinates get_pixel is called with for one tile
PixelCoords(x_start, y, sw) == {<<x_start + x, y>> : x \in 0..(sw - 1)}

\* get_pixel panics outside the image
InImage(image, c) == c[1] < image.width /\ c[2] < image.height

\* view panics when the rectangle leaves the image
ViewInImage(image, y_start, sh) == y_start + sh <= image.height

\* the scanlines get_pixel can return for the tile at x_start, by image class
Scanlines(image, x_start, sw) ==
    IF image.kind = "any"
    THEN [1..sw -> Pixels]
    ELSE {[m \in 1..sw |-> SyntheticPixel(image, x_start + m - 1)]}

\* variant: the column loop stops one column early
MoreColumnsShort(col, cols) == col < cols - 1

\* the column loop's range, 0..num_sections_width
MoreColumns(col, cols) == col < cols

-----------------------------------------------------------------------------
(* Scanline Extractor and Spectral Scorer. *)

BinaryLine(section_line) ==
    [m \in 1..Len(section_line) |-> IF section_line[m] > 128 THEN Scale ELSE 0]

\* forward DFT of a real input: output[k + 1] = <<re, im>> of coefficient k
Fft(input) ==
    LET n == Len(input)
    IN  [k \in 1..n |->
            << SeqSum([m \in 1..n |->
                   RoundDiv(input[m] * Cos2Pi(((m - 1) * (k - 1)) % n, n), Scale)]),
              -SeqSum([m \in 1..n |->
                   RoundDiv(input[m] * Sin2Pi(((m - 1) * (k - 1)) % n, n), Scale)]) >>]

Norm(c) == ISqrt(c[1] * c[1] + c[2] * c[2])

\* variant: the DC coefficient is not skipped
SectionMagnitudeWithDc(output) ==
    IF Len(output) = 0 THEN 0
    ELSE SeqSum([k \in 1..Len(output) |-> Norm(output[k])])

\* the magnitudes of every coefficient but the first, summed
SectionMagnitude(output) ==
    IF Len(output) <= 1 THEN 0
    ELSE SeqSum([k \in 1..(Len(output) - 1) |-> Norm(output[k + 1])])

ThresholdScore(raw, thr) == IF raw > thr THEN raw ELSE 0

-----------------------------------------------------------------------------
(* Region Aggregator. *)

\* a new run starts at this column when none is open
RunStart(count, start, col) == IF count = 0 THEN <<col>> ELSE start

\* variant: the comparison is strict, so a run needs k + 1 columns
EmitCondStrict(count, k) == count > k

\* variant: a region is emitted only at the column that completes the run
EmitCondOnce(count, k) == count = k

EmitCond(count, k) == count >= k

XStart(start, sw) == start * sw

\* variant: the end column is taken as exclusive already
XEndNoPlus(end, sw) == end * sw

XEnd(end, sw) == (end + 1) * sw

Region(start, end, sw, y_start, sh) ==
    <<XStart(start, sw), XEnd(end, sw), y_start, y_start + sh>>

\* variant: the newest region is put first
PushFront(regions, r) == <<r>> \o regions

PushRegion(regions, r) == Append(regions, r)

\* variant: a 0.0 score leaves the open run as it is
RunBreakKeep(count, start) == <<count, start>>

\* the state of the run after a column whose score is 0.0
RunBreak(count, start) == <<0, << >>>>

\* variant: the run locals outlive the band
CarriedRun == <<consecutive_count, start_index>>

\* the locals a band's aggregation starts with
FreshRun == <<0, << >>>>

\* one iteration of the loop over the Score Row: <<count, start, regions>>
AggregateStep(count, start, regions, col, magnitude, k, sw, y_start, sh) ==
    IF magnitude > 0
    THEN LET st == RunStart(count, start, col)
             n  == count + 1
         IN  IF EmitCond(n, k) /\ st # << >>
             THEN <<n, st, PushRegion(regions, Region(st[1], col, sw, y_start, sh))>>
             ELSE <<n, st, regions>>
    ELSE LET b == RunBreak(count, start)
         IN  <<b[1], b[2], regions>>

-----------------------------------------------------------------------------
(* plot_section_magnitudes: the bars of one chart and which of them are red *)

RedBars(magnitudes, regions, section_num, sw, sh) ==
    {c \in 0..(Len(magnitudes) - 1) :
        \E n \in 1..Len(regions) :
            LET r == regions[n]
                x_pos == c * sw
                y_pos == section_num * sh
            IN  x_pos >= r[1] /\ x_pos < r[2] /\ y_pos >= r[3] /\ y_pos < r[4]}

Chart(magnitudes, regions, section_num, sw, sh) ==
    [magnitudes |-> magnitudes,
     red |-> RedBars(magnitudes, regions, section_num, sw, sh)]

-----------------------------------------------------------------------------
(* The state after main.rs:8-26. *)

Setup(image, cols, sh, thr, k) ==
    /\ img = image
    /\ num_sections_width = cols
    /\ section_width = SectionWidth(image.width, cols)
    /\ section_height = sh
    /\ num_sections_height = NumSectionsHeight(image.height, sh)
    /\ threshold = thr
    /\ consecutive_threshold = k
    /\ barcode_regions = << >>
    /\ pc = "band"
    /\ j = 0
    /\ i = 0
    /\ reads = {}
    /\ section_magnitude = 0
    /\ section_magnitudes = << >>
    /\ consecutive_count = 0
    /\ start_index = << >>
    /\ saved = << >>
    /\ charts = << >>
    /\ failed = "none"

\* every Score Row: arbitrary images over a grid of tiles MaxTileW wide
InitRows ==
    \E cols \in 1..MaxCols, k \in 1..MaxK, thr \in {LowThreshold, Scale} :
        \E bands \in 0..(MaxTiles \div cols) :
            Setup([width |-> cols * MaxTileW, height |-> bands, kind |-> "any"],
                  cols, 1, thr, k)

\* every grid geometry, remainders included, over synthetic images
InitGrid ==
    \E cols \in 1..MaxCols, tw \in 0..MaxTileW, sh \in 1..MaxTileH,
       k \in {1, MaxK, DefaultConsecutiveThreshold},
       kind \in {"alt0", "flat255"} :
        \E bands \in 0..(MaxTiles \div cols), wrem \in {0, cols - 1},
           hrem \in {0, sh - 1} :
            Setup([width |-> cols * tw + wrem, height |-> bands * sh + hrem,
                   kind |-> kind], cols, sh, LowThreshold, k)

\* the configuration main.rs hard-codes, over images of up to two bands
InitDefault ==
    \E w \in {0, DefaultNumSectionsWidth - 1, DefaultNumSectionsWidth,
              2 * DefaultNumSectionsWidth - 1},
       h \in {0, DefaultSectionHeight - 1, DefaultSectionHeight,
              2 * DefaultSectionHeight + 1} :
        Setup([width |-> w, height |-> h, kind |-> "any"],
              DefaultNumSectionsWidth, DefaultSectionHeight, DefaultThreshold,
              DefaultConsecutiveThreshold)

\* one band of one wide tile over a synthetic image
InitWide ==
    \E w \in 0..MaxScanW, kind \in SyntheticKinds,
       thr \in {LowThreshold, DefaultThreshold} :
        Setup([width |-> w, height |-> 1, kind |-> kind], 1, 1, thr, 1)

\* ten columns of which columns 3..7 are textured, under the default run length
InitBurst ==
    \E bands \in 1..2 :
        Setup([width |-> 10 * MaxTileW, height |-> bands, kind |-> "burst"],
              10, 1, LowThreshold, DefaultConsecutiveThreshold)

Init == InitRows \/ InitGrid \/ InitDefault \/ InitWide \/ InitBurst

-----------------------------------------------------------------------------
(* The steps of main. *)

\* main.rs:29-43: the band's crop is taken and saved
SaveSection ==
    /\ pc = "band"
    /\ j < num_sections_height
    /\ IF ViewInImage(img, SectionYStart(j, section_height), section_height)
       THEN /\ saved' = Append(saved, j)
            /\ section_magnitudes' = << >>
            /\ i' = 0
            /\ pc' = "score"
            /\ failed' = failed
       ELSE /\ pc' = "panic"
            /\ failed' = "view"
            /\ UNCHANGED <<saved, section_magnitudes, i>>
    /\ UNCHANGED <<img, num_sections_width, section_width, section_height,
                   num_sections_height, threshold, consecutive_threshold,
                   barcode_regions, j, reads, section_magnitude,
                   consecutive_count, start_index, charts>>

\* main.rs:38-40: save fails and expect panics
SaveSectionFail ==
    /\ pc = "band"
    /\ j < num_sections_height
    /\ pc' = "panic"
    /\ failed' = "save"
    /\ UNCHANGED <<img, num_sections_width, section_width, section_height,
                   num_sections_height, threshold, consecutive_threshold,
                   barcode_regions, j, i, reads, section_magnitude,
                   section_magnitudes, consecutive_count, start_index, saved,
                   charts>>

\* main.rs:29, 132: the band loop is exhausted and main returns
Finish ==
    /\ pc = "band"
    /\ ~(j < num_sections_height)
    /\ pc' = "done"
    /\ UNCHANGED <<img, num_sections_width, section_width, section_height,
                   num_sections_height, threshold, consecutive_threshold,
                   barcode_regions, j, i, reads, section_magnitude,
                   section_magnitudes, consecutive_count, start_index, saved,
                   charts, failed>>

\* main.rs:46-82: one column is read, binarised, transformed and scored
ScoreColumn ==
    /\ pc = "score"
    /\ MoreColumns(i, num_sections_width)
    /\ LET section_x_start == SectionXStart(i, section_width)
           y == ScanRow(SectionYStart(j, section_height), section_height)
           coords == PixelCoords(section_x_start, y, section_width)
       IN  /\ reads' = coords
           /\ IF \A c \in coords : InImage(img, c)
              THEN \E binary_line \in
                          {BinaryLine(section_line) :
                              section_line \in Scanlines(img, section_x_start, section_width)} :
                     LET raw == SectionMagnitude(Fft(binary_line))
                     IN  /\ section_magnitude' = raw
                         /\ section_magnitudes' =
                                Append(section_magnitudes, ThresholdScore(raw, threshold))
                         /\ i' = i + 1
                         /\ UNCHANGED <<pc, failed>>
              ELSE /\ pc' = "panic"
                   /\ failed' = "get_pixel"
                   /\ UNCHANGED <<section_magnitude, section_magnitudes, i>>
    /\ UNCHANGED <<img, num_sections_width, section_width, section_height,
                   num_sections_height, threshold, consecutive_threshold,
                   barcode_regions, j, consecutive_count, start_index, saved,
                   charts>>

\* main.rs:82-88: the column loop ends and the run locals are declared
StartAggregate ==
    /\ pc = "score"
    /\ ~MoreColumns(i, num_sections_width)
    /\ consecutive_count' = FreshRun[1]
    /\ start_index' = FreshRun[2]
    /\ i' = 0
    /\ pc' = "aggregate"
    /\ UNCHANGED <<img, num_sections_width, section_width, section_height,
                   num_sections_height, threshold, consecutive_threshold,
                   barcode_regions, j, reads, section_magnitude,
                   section_magnitudes, saved, charts, failed>>

\* main.rs:88-121: one score of the row is aggregated
AggregateColumn ==
    /\ pc = "aggregate"
    /\ i < Len(section_magnitudes)
    /\ LET st == AggregateStep(consecutive_count, start_index, barcode_regions,
                               i, section_magnitudes[i + 1], consecutive_threshold,
                               section_width, SectionYStart(j, section_height),
                               section_height)
       IN  /\ consecutive_count' = st[1]
           /\ start_index' = st[2]
           /\ barcode_regions' = st[3]
    /\ i' = i + 1
    /\ UNCHANGED <<img, num_sections_width, section_width, section_height,
                   num_sections_height, threshold, consecutive_threshold, pc, j,
                   reads, section_magnitude, section_magnitudes, saved, charts,
                   failed>>

\* main.rs:124-131: the band's chart is written and the next band begins
Plot ==
    /\ pc = "aggregate"
    /\ ~(i < Len(section_magnitudes))
    /\ charts' = Append(charts, Chart(section_magnitudes, barcode_regions, j,
                                      section_width, section_height))
    /\ j' = j + 1
    /\ pc' = "band"
    /\ UNCHANGED <<img, num_sections_width, section_width, section_height,
                   num_sections_height, threshold, consecutive_threshold,
                   barcode_regions, i, reads, section_magnitude,
                   section_magnitudes, consecutive_count, start_index, saved,
                   failed>>

\* variant: the chart's failure is recorded and the scan goes on
PlotFailIgnored ==
    /\ pc = "aggregate"
    /\ ~(i < Len(section_magnitudes))
    /\ failed' = "plot"
    /\ j' = j + 1
    /\ pc' = "band"
    /\ UNCHANGED <<img, num_sections_width, section_width, section_height,
                   num_sections_height, threshold, consecutive_threshold,
                   barcode_regions, i, reads, section_magnitude,
                   section_magnitudes, consecutive_count, start_index, saved,
                   charts>>

\* main.rs:146-180: a plotters call fails and unwrap panics
PlotFail ==
    /\ pc = "aggregate"
    /\ ~(i < Len(section_magnitudes))
    /\ pc' = "panic"
    /\ failed' = "plot"
    /\ UNCHANGED <<img, num_sections_width, section_width, section_height,
                   num_sections_height, threshold, consecutive_threshold,
                   barcode_regions, j, i, reads, section_magnitude,
                   section_magnitudes, consecutive_count, start_index, saved,
                   charts>>

Next ==
    \/ SaveSection
    \/ SaveSectionFail
    \/ Finish
    \/ ScoreColumn
    \/ StartAggregate
    \/ AggregateColumn
    \/ Plot
    \/ PlotFail

Spec == Init /\ [][Next]_vars

-----------------------------------------------------------------------------
(* Vocabulary of the properties. *)

\* bands whose Score Row is complete: plotted, or being aggregated
RowBands ==
    {b \in 0..j : b < Len(charts) \/ (b = j /\ pc = "aggregate")}

RowOf(b) == IF b < Len(charts) THEN charts[b + 1].magnitudes ELSE section_magnitudes

\* how many columns of band b's row the aggregator has consumed
Consumed(b) == IF b < Len(charts) THEN Len(charts[b + 1].magnitudes) ELSE i

BandRegions(b) ==
    SelectSeq(barcode_regions, LAMBDA r : r[3] = b * section_height)

\* maximal runs <<s, e>> of columns with a score > 0.0
MaximalRuns(row) ==
    {run \in (0..(Len(row) - 1)) \X (0..(Len(row) - 1)) :
        /\ run[1] <= run[2]
        /\ \A c \in run[1]..run[2] : row[c + 1] > 0
        /\ (run[1] = 0 \/ row[run[1]] = 0)
        /\ (run[2] = Len(row) - 1 \/ row[run[2] + 2] = 0)}

RunLen(run) == run[2] - run[1] + 1

\* the regions of band b that start inside the columns of run
RunRegions(b, run) ==
    SelectSeq(BandRegions(b),
              LAMBDA r : /\ r[1] >= run[1] * section_width
                         /\ r[1] < (run[2] + 1) * section_width)

\* the region of band b spanning columns s..e
Box(b, s, e) ==
    <<s * section_width, (e + 1) * section_width,
      b * section_height, b * section_height + section_height>>

Min(a, b) == IF a < b THEN a ELSE b

IsPrefix(s, t) == Len(s) <= Len(t) /\ \A n \in 1..Len(s) : s[n] = t[n]

\* what one Score Row yields when aggregated on its own
RowAlone(row, b) ==
    LET F[n \in 0..Len(row)] ==
            IF n = 0 THEN <<0, << >>, << >>>>
            ELSE AggregateStep(F[n - 1][1], F[n - 1][2], F[n - 1][3], n - 1, row[n],
                               consecutive_threshold, section_width,
                               b * section_height, section_height)
    IN  F[Len(row)][3]

\* rounding allowed between the fixed-point raw score and its exact value
Tolerance == Scale \div 20

Alternating == img.kind \in {"alt0", "alt255"}

\* the last column scored in the current band
Scored == Len(section_magnitudes) >= 1 /\ pc \in {"score", "aggregate"}

LastScore == section_magnitudes[Len(section_magnitudes)]

-----------------------------------------------------------------------------
(* Properties. *)

\* C1: a maximal run of exactly k-1 non-zero scores yields no region; a
\* maximal run of exactly k scores starting at column s yields exactly one
\* region, s*tile_w .. (s+k)*tile_w, present once column s+k-1 is consumed.
C1_RunBoundary ==
    \A b \in RowBands : \A run \in MaximalRuns(RowOf(b)) :
        /\ RunLen(run) = consecutive_threshold - 1
               => RunRegions(b, run) = << >>
        /\ RunLen(run) = consecutive_threshold
               => RunRegions(b, run) =
                      IF Consumed(b) >= run[1] + consecutive_threshold
                      THEN <<Box(b, run[1], run[2])>>
                      ELSE << >>

C1_Witness ==
    \E b \in 0..(Len(charts) - 1) :
        /\ consecutive_threshold >= 2
        /\ \E run \in MaximalRuns(RowOf(b)) :
               /\ RunLen(run) = consecutive_threshold
               /\ Len(RunRegions(b, run)) = 1
        /\ \E run \in MaximalRuns(RowOf(b)) :
               RunLen(run) = consecutive_threshold - 1

\* C2 as stated: a row with two separated runs of length >= k yields one
\* region per run, two in all, none of them spanning both runs.
C2_OneRegionPerRun ==
    \A b \in 0..(Len(charts) - 1) :
        LET q == {run \in MaximalRuns(RowOf(b)) :
                     RunLen(run) >= consecutive_threshold}
        IN  Cardinality(q) = 2 =>
                /\ Len(BandRegions(b)) = 2
                /\ \A run \in q : Len(RunRegions(b, run)) = 1

\* C2 amended: a row with two or more separated runs of length L >= k yields
\* L-k+1 regions per run (one only when L = k); every region of the band
\* starts at the start of one such run and ends inside it, so none spans two
\* runs or a zero column between them.
C2_RegionsStayInRun ==
    \A b \in 0..(Len(charts) - 1) :
        LET q == {run \in MaximalRuns(RowOf(b)) :
                     RunLen(run) >= consecutive_threshold}
            regs == BandRegions(b)
        IN  Cardinality(q) >= 2 =>
                /\ \A run \in q :
                       Len(RunRegions(b, run)) =
                           RunLen(run) - consecutive_threshold + 1
                /\ \A n \in 1..Len(regs) : \E run \in q :
                       /\ regs[n][1] = run[1] * section_width
                       /\ regs[n][2] <= (run[2] + 1) * section_width

C2_Witness ==
    \E b \in 0..(Len(charts) - 1) :
        LET q == {run \in MaximalRuns(RowOf(b)) :
                     RunLen(run) >= consecutive_threshold}
        IN  /\ Cardinality(q) = 2
            /\ Len(BandRegions(b)) = 3

\* C3: a maximal run of length L >= k starting at column s yields L-k+1
\* regions, one per column c in s+k-1 .. s+L-1 as it is consumed, each
\* s*tile_w .. (c+1)*tile_w, with x_end strictly growing; they all stay.
C3_ReEmission ==
    \A b \in RowBands : \A run \in MaximalRuns(RowOf(b)) :
        RunLen(run) >= consecutive_threshold =>
            LET first == run[1] + consecutive_threshold - 1
                last == Min(run[2], Consumed(b) - 1)
                mine == RunRegions(b, run)
            IN  /\ mine = [n \in 1..(IF last < first THEN 0 ELSE last - first + 1)
                              |-> Box(b, run[1], first + n - 1)]
                /\ \A n \in 1..(Len(mine) - 1) : mine[n][2] < mine[n + 1][2]

C3_Witness ==
    \E b \in 0..(Len(charts) - 1) : \E run \in MaximalRuns(RowOf(b)) :
        /\ RunLen(run) >= consecutive_threshold + 2
        /\ consecutive_threshold >= 2
        /\ Len(RunRegions(b, run)) = 3
        /\ RunRegions(b, run)[3] = Box(b, run[1], run[2])

\* C4: every region has x_start < x_end, is exactly one band high, lies
\* within 0 .. num_cols*tile_w <= W horizontally, starts on a band boundary
\* and ends at or above row H.
C4_RegionBounds ==
    \A n \in 1..Len(barcode_regions) :
        LET r == barcode_regions[n]
        IN  /\ r[1] < r[2]
            /\ r[4] - r[3] = section_height
            /\ 0 <= r[1]
            /\ r[2] <= num_sections_width * section_width
            /\ num_sections_width * section_width <= img.width
            /\ r[3] % section_height = 0
            /\ r[4] <= img.height

C4_Witness ==
    /\ Len(barcode_regions) >= 2
    /\ num_sections_width * section_width < img.width
    /\ barcode_regions[Len(barcode_regions)][2] = num_sections_width * section_width
    /\ barcode_regions[Len(barcode_regions)][4] < img.height
    /\ barcode_regions[Len(barcode_regions)][3] > 0

\* C5 as stated: a complete scan has processed H / tile_h bands, and the
\* number of columns of each band is W / num_cols.
C5_ColumnsAreTileWidth ==
    pc = "done" =>
        /\ Len(charts) = img.height \div section_height
        /\ \A b \in 1..Len(charts) :
               Len(charts[b].magnitudes) = img.width \div num_sections_width

\* C5 amended: a complete scan has processed H / tile_h bands (integer
\* division), and each band has num_cols columns, each W / num_cols wide.
C5_GridCounts ==
    pc = "done" =>
        /\ j = img.height \div section_height
        /\ Len(charts) = img.height \div section_height
        /\ saved = [b \in 1..(img.height \div section_height) |-> b - 1]
        /\ \A b \in 1..Len(charts) :
               Len(charts[b].magnitudes) = num_sections_width
        /\ section_width = img.width \div num_sections_width

C5_Witness ==
    /\ pc = "done"
    /\ Len(charts) >= 2
    /\ img.height > Len(charts) * section_height
    /\ img.width > num_sections_width * section_width
    /\ section_width # num_sections_width
    /\ section_width >= 1

NothingFollows ==
    failed \in {"save", "plot"} =>
        /\ barcode_regions' = barcode_regions
        /\ section_magnitudes' = section_magnitudes
        /\ charts' = charts
        /\ saved' = saved
        /\ j' = j
        /\ i' = i

\* C7: once a band's crop save or chart render has failed, nothing follows:
\* no score, no region, no crop, no chart and no further band.
C7_AbortOnFailure == [][NothingFollows]_vars

C7_Witness ==
    /\ failed = "plot"
    /\ pc = "panic"
    /\ j >= 1
    /\ j + 1 < num_sections_height
    /\ Len(BandRegions(j)) >= 1
    /\ Len(charts) = j

GrowsInOrder ==
    /\ IsPrefix(barcode_regions, barcode_regions')
    /\ \A m, n \in 1..Len(barcode_regions') :
           m < n =>
               LET r1 == barcode_regions'[m]
                   r2 == barcode_regions'[n]
               IN  \/ r1[3] < r2[3]
                   \/ r1[3] = r2[3] /\ r1[2] < r2[2]

\* C8: the region list only grows at its end, and it is ordered by band
\* and, within a band, by strictly increasing x_end.
C8_AppendOnlyOrdered == [][GrowsInOrder]_vars

C8_Witness ==
    /\ Len(barcode_regions) >= 3
    /\ barcode_regions[1][3] = barcode_regions[2][3]
    /\ barcode_regions[2][3] < barcode_regions[3][3]
    /\ barcode_regions[1][1] = barcode_regions[3][1]

\* C9: a band's aggregation starts with the counter at 0 and no run start,
\* and the regions of a band are those its own Score Row yields by itself.
C9_BandsIndependent ==
    /\ (pc = "aggregate" /\ i = 0)
           => (consecutive_count = 0 /\ start_index = << >>)
    /\ \A b \in 0..(Len(charts) - 1) :
           BandRegions(b) = RowAlone(RowOf(b), b)

C9_Witness ==
    \E b \in 0..(Len(charts) - 2) :
        LET row1 == RowOf(b)
            row2 == RowOf(b + 1)
        IN  /\ consecutive_threshold = 2
            /\ Len(row1) >= 3
            /\ row1[Len(row1)] > 0
            /\ row1[Len(row1) - 1] = 0
            /\ row2[1] > 0
            /\ row2[2] = 0
            /\ BandRegions(b) = << >>
            /\ BandRegions(b + 1) = << >>

\* C10: every pixel read lies inside the image, no read or crop leaves it,
\* and when W < num_cols nothing is read and no region is emitted.
C10_ReadsInImage ==
    /\ \A c \in reads :
           /\ 0 <= c[1] /\ c[1] < img.width
           /\ 0 <= c[2] /\ c[2] < img.height
    /\ failed \notin {"get_pixel", "view"}
    /\ img.width < num_sections_width
           => (reads = {} /\ barcode_regions = << >>)

C10_Witness ==
    /\ <<img.width - 1, img.height - 1>> \in reads
    /\ Cardinality(reads) >= 2
    /\ j >= 1

=============================================================================
